---- MODULE Spec2Model ----
(***************************************************************************)
(* Task management API: the record store (repository/task_repository.go),  *)
(* the task service (service/task_service.go) and the auto-completion      *)
(* worker (service worker: scanner, bounded channel, worker goroutines).   *)
(*                                                                         *)
(* Time is an integer clock `now` counted in ticks.  time.Now() reads the  *)
(* clock; a time written to the store keeps whole milliseconds only.       *)
(***************************************************************************)
EXTENDS Integers, Sequences, FiniteSets, TLC

\* ------------------------------------------------------------------ bounds
\* Number of task identifiers the store ever hands out in a run.
MaxTasks == 2
\* Last clock value of a run.
MaxTime == 6
\* Clock ticks per millisecond (the store keeps whole milliseconds).
Millisecond == 2
\* Capacity of the work channel, scaled down from the program's 100.
QueueCap == 2
\* Number of worker goroutines, scaled down from the 3 that Start launches.
NumWorkers == 2
\* Largest page and limit a listing request is tried with.
MaxPage == 3
MaxLimit == 2
\* Number of tasks created in a run of the listing specification, and the time
\* at which its clock stops.
MaxListTasks == 3
MaxListTime == 2
\* Number of hex digits of an identifier in a URL, scaled down from 24.
IDHexLen == 1
\* DeleteTask requests in flight at once.
NumDeleters == 2
\* Number of request goroutines inside the repository at once.
NumRequests == 3

\* --------------------------------------------------------- program constants
\* AUTO_COMPLETE_MINUTES as configured for the run.
AutoCompleteMinutes == 1
\* Pagination defaults of the repository.
DefaultPage == 1
DefaultLimit == 10
\* The handler's pagination defaults and the largest limit it lets through.
HandlerPage == 1
HandlerLimit == 10
HandlerMaxLimit == 100

\* A minute of the model's clock, scaled down to one millisecond.
Minute == Millisecond
\* time.Duration(w.autoCompleteMinutes) * time.Minute
Window == AutoCompleteMinutes * Minute

TaskStatusPending == "pending"
TaskStatusInProgress == "in_progress"
TaskStatusCompleted == "completed"

UserRoleUser == "user"
UserRoleAdmin == "admin"

\* The role of a user of a run (models.User: ID, Role): "alice" and "bob" are
\* plain users, "root" is an admin.
Role(u) == IF u = "root" THEN UserRoleAdmin ELSE UserRoleUser

TaskIDs == 1..MaxTasks
Workers == 1..NumWorkers
\* The goroutines that call the repository: HTTP requests, the scanner (Start)
\* and a worker (processTasksFromChannel).
RequestGoroutines == {<<"request", i>> : i \in 1..NumRequests}
Goroutines == RequestGoroutines \cup {<<"scanner", 1>>, <<"worker", 1>>}

\* Request inputs.
Titles == {"", "Write spec"}
StatusInputs == {"", "pending", "in_progress", "completed", "archived"}

VARIABLES
    collection,   \* the tasks collection: identifier -> stored document
    nextID,       \* the next ObjectID the store assigns
    now,          \* the clock
    taskChannel,  \* w.taskChannel: buffered identifiers, oldest first
    chClosed,     \* whether close(w.taskChannel) has run
    ctxDone,      \* whether the worker's context is cancelled
    spc,          \* scanner (Start / checkAndQueueTasks) position
    stasks,       \* checkAndQueueTasks: records still to push
    wpc,          \* per worker goroutine: position
    wid,          \* per worker: taskID being handled
    wtask,        \* per worker: the task FindByID returned
    listResp,     \* the last ListTasks call: caller, filter and result
    resp,         \* the last HTTP response of a task handler
    mu,           \* TaskRepository.mu: the goroutines holding it, by mode
    calls,        \* per goroutine: the repository method it is inside
    waiting,      \* per goroutine: the method whose Lock / RLock call it waits in
    dels          \* per DeleteTask request in flight: position, caller, task, error

storeVars == <<collection, nextID>>
chanVars == <<taskChannel, chClosed>>
scanVars == <<spc, stasks>>
workerVars == <<wpc, wid, wtask>>
lockVars == <<mu, calls, waiting>>
vars == <<collection, nextID, now, taskChannel, chClosed, ctxDone, spc,
          stasks, wpc, wid, wtask, listResp, resp,
          mu, calls, waiting, dels>>

\* ------------------------------------------------------------------ models
\* A time as the store keeps it: BSON datetimes hold whole milliseconds.
BsonTime(t) == t - (t % Millisecond)

\* Mutant: every status is taken as valid.
IsValidStatusAny(status) == TRUE

IsValidStatus(status) ==
    status = TaskStatusPending \/ status = TaskStatusInProgress
        \/ status = TaskStatusCompleted

\* Mutant: UpdatedAt is left at the zero time.
NewTaskZeroUpdated(userID, title, description, status) ==
    [id |-> 0, user_id |-> userID, title |-> title, description |-> description,
     status |-> status, created_at |-> now, updated_at |-> 0]

NewTask(userID, title, description, status) ==
    [id |-> 0, user_id |-> userID, title |-> title, description |-> description,
     status |-> status, created_at |-> now, updated_at |-> now]

\* The zero models.Task (no document).
NoTask ==
    [id |-> 0, user_id |-> "", title |-> "", description |-> "", status |-> "",
     created_at |-> 0, updated_at |-> 0]

\* The document InsertOne writes for a task under a fresh identifier.
Document(task, id) ==
    [task EXCEPT !.id = id,
                 !.created_at = BsonTime(task.created_at),
                 !.updated_at = BsonTime(task.updated_at)]

\* -------------------------------------------------------------- repository
\* Go's integer division and remainder truncate toward zero.
GoDiv(a, b) ==
    IF (a >= 0) = (b > 0) THEN (IF a >= 0 THEN a ELSE -a) \div (IF b > 0 THEN b ELSE -b)
    ELSE -((IF a >= 0 THEN a ELSE -a) \div (IF b > 0 THEN b ELSE -b))
GoMod(a, b) == a - b * GoDiv(a, b)

\* All orders in which a cursor can hand out the documents of S.
Orderings(S) ==
    {s \in [1..Cardinality(S) -> S] : \A i, j \in 1..Cardinality(S) : s[i] = s[j] => i = j}

\* Mutant: no sort option; the cursor hands the documents out in any order.
SortedByNothing(s, dir) == TRUE

\* SetSort({created_at, dir}): dir = 1 ascending, -1 descending; documents with
\* equal created_at come in any order.
SortedBy(s, dir) ==
    \A i, j \in 1..Len(s) :
        i < j => IF dir = 1 THEN s[i].created_at <= s[j].created_at
                           ELSE s[i].created_at >= s[j].created_at

\* Find(query, SetSkip(skip), SetLimit(limit), SetSort): the possible results,
\* for the set of documents matching the query.
FindSorted(matching, dir) == {s \in Orderings(matching) : SortedBy(s, dir)}
SkipLimit(s, skip, limit) ==
    SubSeq(s, skip + 1, IF skip + limit < Len(s) THEN skip + limit ELSE Len(s))

Documents == {collection[id] : id \in DOMAIN collection}

\* Create: InsertOne assigns the identifier; the collection gains one document.
Create(task) ==
    /\ collection' = [id \in DOMAIN collection \cup {nextID} |->
                        IF id = nextID THEN Document(task, nextID) ELSE collection[id]]
    /\ nextID' = nextID + 1

\* FindByID: the document and a nil error, or "task not found".
FindByID(id) ==
    IF id \in DOMAIN collection
    THEN [task |-> collection[id], err |-> ""]
    ELSE [task |-> NoTask, err |-> "task not found"]

\* Mutant: the query carries no status condition.
MatchesFilterAny(doc, filter) == TRUE

\* A TaskFilter: Status is <<>> for a nil pointer, else <<status>>.
MatchesFilter(doc, filter) ==
    filter.Status = <<>> \/ doc.status = filter.Status[1]

\* The pagination defaults the repository applies to its own copy of the filter.
PageOf(filter) == IF filter.Page < 1 THEN DefaultPage ELSE filter.Page
LimitOf(filter) == IF filter.Limit < 1 THEN DefaultLimit ELSE filter.Limit

\* Mutant: skip is page * limit.
FindPageSkipPage(matching, filter) ==
    {[tasks |-> SkipLimit(s, PageOf(filter) * LimitOf(filter), LimitOf(filter)),
      totalCount |-> Cardinality(matching)] : s \in FindSorted(matching, -1)}

\* FindByUserID and FindAll: count, pagination defaults, skip, find.
FindPage(matching, filter) ==
    {[tasks |-> SkipLimit(s, (PageOf(filter) - 1) * LimitOf(filter), LimitOf(filter)),
      totalCount |-> Cardinality(matching)] : s \in FindSorted(matching, -1)}

\* FindByUserID: the possible (tasks, totalCount) results.
FindByUserID(userID, filter) ==
    FindPage({d \in Documents : d.user_id = userID /\ MatchesFilter(d, filter)}, filter)

\* FindAll: the possible (tasks, totalCount) results.
FindAll(filter) ==
    FindPage({d \in Documents : MatchesFilter(d, filter)}, filter)

\* Mutant: a soft delete; the document stays, marked as deleted.
DeleteSoft(id) ==
    /\ collection' = [i \in DOMAIN collection |->
                        IF i = id THEN [collection[i] EXCEPT !.status = "deleted"]
                        ELSE collection[i]]
    /\ UNCHANGED nextID

\* Delete: DeleteOne; "task not found" when nothing was deleted.
\* Mutant: Delete does not look at DeletedCount.
DeleteErrIgnored(id) == ""

DeleteErr(id) == IF id \in DOMAIN collection THEN "" ELSE "task not found"
Delete(id) ==
    /\ collection' = [i \in DOMAIN collection \ {id} |-> collection[i]]
    /\ UNCHANGED nextID

\* Mutant: the update replaces the document by one that holds the identifier,
\* the status and the update time only.
UpdateStatusReplace(id, status) ==
    /\ collection' = [i \in DOMAIN collection |->
                        IF i = id
                        THEN [NoTask EXCEPT !.id = id, !.status = status,
                                            !.updated_at = BsonTime(now)]
                        ELSE collection[i]]
    /\ UNCHANGED nextID

\* Mutant: the update inserts a document when none has the identifier.
UpdateStatusUpsert(id, status) ==
    /\ collection' = [i \in DOMAIN collection \cup {id} |->
                        IF i = id
                        THEN [(IF i \in DOMAIN collection THEN collection[i] ELSE NoTask)
                                 EXCEPT !.id = id, !.status = status,
                                        !.updated_at = BsonTime(now)]
                        ELSE collection[i]]
    /\ UNCHANGED nextID

\* UpdateStatus: UpdateOne $set status and updated_at = time.Now(); it matches
\* no document, and returns "task not found", when none has the identifier.
UpdateStatusErr(id) == IF id \in DOMAIN collection THEN "" ELSE "task not found"
UpdateStatus(id, status) ==
    /\ collection' = [i \in DOMAIN collection |->
                        IF i = id
                        THEN [collection[i] EXCEPT !.status = status,
                                                   !.updated_at = BsonTime(now)]
                        ELSE collection[i]]
    /\ UNCHANGED nextID

\* Mutant: the query's $lt is a $lte.
FindPendingTasksLte(olderThan) ==
    FindSorted({d \in Documents :
                   /\ d.status \in {TaskStatusPending, TaskStatusInProgress}
                   /\ d.created_at <= BsonTime(olderThan)}, 1)

\* FindPendingTasks: the possible results; olderThan goes into the query as a
\* BSON datetime.
FindPendingTasks(olderThan) ==
    FindSorted({d \in Documents :
                   /\ d.status \in {TaskStatusPending, TaskStatusInProgress}
                   /\ d.created_at < BsonTime(olderThan)}, 1)


\* ------------------------------------------------------------ repository lock
\* The repository methods each kind of goroutine calls.
MethodsOf(g) ==
    IF g[1] = "request"
    THEN {"Create", "FindByID", "FindByUserID", "FindAll", "Delete"}
    ELSE IF g[1] = "scanner" THEN {"FindPendingTasks"}
    ELSE {"FindByID", "UpdateStatus"}

\* Mutant: every method takes the shared mode.
LockModeShared(method) == "RLock"

\* The mode in which a method takes r.mu before its storage call.
LockMode(method) ==
    IF method \in {"Create", "Delete", "UpdateStatus"} THEN "Lock" ELSE "RLock"

\* r.mu.Lock() or r.mu.RLock() returns: the goroutine is inside the method, at
\* its storage call.  Lock waits for every holder, RLock for a writer.
\* A goroutine calls a repository method and arrives at its r.mu.Lock() or
\* r.mu.RLock().
Call(g, method) ==
    /\ calls[g] = ""
    /\ waiting[g] = ""
    /\ waiting' = [waiting EXCEPT ![g] = method]
    /\ UNCHANGED <<storeVars, now, chanVars, ctxDone, scanVars, workerVars,
                   listResp, resp, mu, calls, dels>>

\* The goroutines waiting in Lock, and those waiting in RLock.
WaitingWriters == {g \in Goroutines : waiting[g] # "" /\ LockMode(waiting[g]) = "Lock"}
WaitingReaders == {g \in Goroutines : waiting[g] # "" /\ LockMode(waiting[g]) = "RLock"}

\* The lock is granted and the goroutine goes on to its store call, under a
\* deadline of 5 or 10 seconds.  Lock waits for every holder to leave; RLock
\* waits while a writer holds the lock or waits for it (sync.RWMutex keeps new
\* readers behind a waiting writer).
Enter(g, method) ==
    /\ calls[g] = ""
    /\ waiting[g] = method
    /\ mu.writers = {}
    /\ IF LockMode(method) = "Lock"
       THEN /\ mu.readers = {}
            /\ mu' = [mu EXCEPT !.writers = {g}]
       ELSE /\ WaitingWriters = {}
            /\ mu' = [mu EXCEPT !.readers = @ \cup {g}]
    /\ calls' = [calls EXCEPT ![g] = method]
    /\ waiting' = [waiting EXCEPT ![g] = ""]
    /\ UNCHANGED <<storeVars, now, chanVars, ctxDone, scanVars, workerVars,
                   listResp, resp, dels>>

\* Mutant: a method that returns an error (a failed or timed-out store call)
\* returns without releasing the lock.
LeaveLockedOnError(g) ==
    /\ calls[g] # ""
    /\ \E failed \in BOOLEAN :
          mu' = IF failed THEN mu
                ELSE IF LockMode(calls[g]) = "Lock"
                THEN [writers |-> {}, readers |-> WaitingReaders]
                ELSE [mu EXCEPT !.readers = @ \ {g}]
    /\ calls' = [h \in Goroutines |->
                   IF h = g THEN ""
                   ELSE IF h \in mu'.readers /\ waiting[h] # "" THEN waiting[h]
                   ELSE calls[h]]
    /\ waiting' = [h \in Goroutines |->
                     IF h \in mu'.readers /\ waiting[h] # "" THEN "" ELSE waiting[h]]
    /\ UNCHANGED <<storeVars, now, chanVars, ctxDone, scanVars, workerVars,
                   listResp, resp, dels>>

\* The method returns, with a result, an error or an expired deadline: the
\* deferred Unlock or RUnlock runs either way.  Unlock lets in every reader
\* that waited behind the writer, before the next writer.
Leave(g) ==
    /\ calls[g] # ""
    /\ mu' = IF LockMode(calls[g]) = "Lock"
             THEN [writers |-> {}, readers |-> WaitingReaders]
             ELSE [mu EXCEPT !.readers = @ \ {g}]
    /\ calls' = [h \in Goroutines |->
                   IF h = g THEN ""
                   ELSE IF h \in mu'.readers /\ waiting[h] # "" THEN waiting[h]
                   ELSE calls[h]]
    /\ waiting' = [h \in Goroutines |->
                     IF h \in mu'.readers /\ waiting[h] # "" THEN "" ELSE waiting[h]]
    /\ UNCHANGED <<storeVars, now, chanVars, ctxDone, scanVars, workerVars,
                   listResp, resp, dels>>

\* Mutant: the title is not checked.
CreateTaskErrAnyTitle(title, status) ==
    IF ~IsValidStatus(IF status = "" THEN TaskStatusPending ELSE status)
    THEN "invalid status, must be one of: pending, in_progress, completed"
    ELSE ""

\* ----------------------------------------------------------------- service
\* CreateTask: what the service returns for a request, before the store call.
CreateTaskErr(title, status) ==
    IF title = "" THEN "title is required"
    ELSE IF ~IsValidStatus(IF status = "" THEN TaskStatusPending ELSE status)
         THEN "invalid status, must be one of: pending, in_progress, completed"
         ELSE ""

\* CreateTask: a request that fails validation, or whose store call fails,
\* stores nothing; otherwise Create inserts NewTask(...).
CreateTask(u, title, status) ==
    /\ IF CreateTaskErr(title, status) = ""
       THEN Create(NewTask(u, title, "", IF status = "" THEN TaskStatusPending ELSE status))
       ELSE UNCHANGED storeVars
    /\ UNCHANGED <<now, chanVars, ctxDone, scanVars, workerVars, listResp, resp, lockVars, dels>>

\* Mutant: the authorization check lets every caller through.
AuthorizedAny(u, task) == TRUE

\* The authorization check of GetTask and DeleteTask.
Authorized(u, task) == ~(Role(u) # UserRoleAdmin /\ task.user_id # u)

\* DeleteTask: FindByID, the authorization check and Delete.  A request that
\* fails either check deletes nothing.
DeleteTask(u, id) ==
    /\ IF FindByID(id).err = "" /\ Authorized(u, FindByID(id).task)
       THEN Delete(id)
       ELSE UNCHANGED storeVars
    /\ UNCHANGED <<now, chanVars, ctxDone, scanVars, workerVars, listResp, resp, lockVars, dels>>

\* DeleteTask, first part: FindByID and the authorization check.  The request
\* ends here with the error of either, or goes on holding the task it found.
DeleteTaskFind(d, u, id) ==
    /\ dels[d].pc = "idle"
    /\ dels' = [dels EXCEPT ![d] =
                  IF FindByID(id).err # ""
                  THEN [pc |-> "done", user |-> u, id |-> id, task |-> NoTask,
                        err |-> FindByID(id).err]
                  ELSE IF ~Authorized(u, FindByID(id).task)
                  THEN [pc |-> "done", user |-> u, id |-> id,
                        task |-> FindByID(id).task,
                        err |-> "unauthorized to delete this task"]
                  ELSE [pc |-> "delete", user |-> u, id |-> id,
                        task |-> FindByID(id).task, err |-> ""]]
    /\ UNCHANGED <<storeVars, now, chanVars, ctxDone, scanVars, workerVars, listResp,
                   resp, lockVars>>

\* DeleteTask, second part: taskRepo.Delete and its error.
DeleteTaskDelete(d) ==
    /\ dels[d].pc = "delete"
    /\ dels' = [dels EXCEPT ![d].pc = "done", ![d].err = DeleteErr(dels[d].id)]
    /\ Delete(dels[d].id)
    /\ UNCHANGED <<now, chanVars, ctxDone, scanVars, workerVars, listResp, resp,
                   lockVars>>

\* GetTask: FindByID, then the authorization check.
GetTask(u, id) ==
    IF FindByID(id).err # "" THEN [task |-> NoTask, err |-> FindByID(id).err]
    ELSE IF ~Authorized(u, FindByID(id).task)
         THEN [task |-> NoTask, err |-> "unauthorized access to task"]
         ELSE [task |-> FindByID(id).task, err |-> ""]

\* DeleteTask: the error it returns when every store call succeeds.
DeleteTaskErr(u, id) ==
    IF FindByID(id).err # "" THEN FindByID(id).err
    ELSE IF ~Authorized(u, FindByID(id).task)
         THEN "unauthorized to delete this task"
         ELSE DeleteErr(id)

\* Mutant: every caller gets the unscoped listing.
FindForUnscoped(u, filter) == FindAll(filter)

\* ListTasks: FindAll for an admin, FindByUserID for any other caller.
FindFor(u, filter) ==
    IF Role(u) = UserRoleAdmin THEN FindAll(filter) ELSE FindByUserID(u, filter)

\* Mutant: the remainder does not add a page.
TotalPagesFloor(totalCount, limit) == GoDiv(totalCount, limit)

\* ListTasks: the total pages, for a limit other than 0.
TotalPages(totalCount, limit) ==
    GoDiv(totalCount, limit) + (IF GoMod(totalCount, limit) > 0 THEN 1 ELSE 0)

\* ListTasks: the possible responses.  The division is by the caller's
\* filter.Limit, and panics when that is 0.
ListTasks(u, filter) ==
    {[user |-> u, filter |-> filter,
      err |-> IF filter.Limit = 0 THEN "panic: integer divide by zero" ELSE "",
      tasks |-> IF filter.Limit = 0 THEN <<>> ELSE r.tasks,
      page |-> IF filter.Limit = 0 THEN 0 ELSE filter.Page,
      limit |-> IF filter.Limit = 0 THEN 0 ELSE filter.Limit,
      totalCount |-> IF filter.Limit = 0 THEN 0 ELSE r.totalCount,
      totalPages |-> IF filter.Limit = 0 THEN 0 ELSE TotalPages(r.totalCount, filter.Limit)]
     : r \in FindFor(u, filter)}

\* A ListTasks call whose store calls succeed.
ListTasksCall(u, filter) ==
    /\ listResp' \in ListTasks(u, filter)
    /\ UNCHANGED <<storeVars, now, chanVars, ctxDone, scanVars, workerVars, resp,
                   lockVars, dels>>

\* A ListTasks call whose store call fails.
ListTasksFail ==
    /\ listResp' = [err |-> "failed to list tasks"]
    /\ UNCHANGED <<storeVars, now, chanVars, ctxDone, scanVars, workerVars, resp,
                   lockVars, dels>>

\* Mutant: the scan claims what it finds, marking each found record
\* in_progress in the store.
ScanTickClaims ==
    /\ spc = "select"
    /\ ~ctxDone
    /\ \E s \in FindPendingTasks(now - Window) :
          /\ stasks' = [i \in 1..Len(s) |-> s[i].id]
          /\ spc' = IF s = <<>> THEN "select" ELSE "push"
          /\ collection' = [id \in DOMAIN collection |->
                              IF id \in {s[i].id : i \in 1..Len(s)}
                              THEN [collection[id] EXCEPT !.status = TaskStatusInProgress]
                              ELSE collection[id]]
    /\ UNCHANGED <<nextID, now, chanVars, ctxDone, workerVars, listResp, resp, lockVars, dels>>

\* ------------------------------------------------------------------ worker
\* Start: the select takes the ticker case; checkAndQueueTasks computes its
\* threshold and FindPendingTasks succeeds.  Store calls are made under ctx and
\* fail once it is cancelled.
ScanTick ==
    /\ spc = "select"
    /\ ~ctxDone
    /\ \E s \in FindPendingTasks(now - Window) :
          /\ stasks' = [i \in 1..Len(s) |-> s[i].id]
          /\ spc' = IF s = <<>> THEN "select" ELSE "push"
    /\ UNCHANGED <<storeVars, now, chanVars, ctxDone, workerVars, listResp, resp, lockVars, dels>>

\* Start: the select takes the ticker case and FindPendingTasks fails; the
\* scan returns.
ScanTickFail ==
    /\ spc = "select"
    /\ UNCHANGED vars

\* Mutant: a full channel ends the scan; the remaining records are not tried.
ScanPushStopOnFull ==
    /\ spc = "push"
    /\ taskChannel' = IF Len(taskChannel) < QueueCap
                      THEN Append(taskChannel, Head(stasks))
                      ELSE taskChannel
    /\ stasks' = IF Len(taskChannel) < QueueCap THEN Tail(stasks) ELSE <<>>
    /\ spc' = IF stasks' = <<>> THEN "select" ELSE "push"
    /\ UNCHANGED <<storeVars, now, chClosed, ctxDone, workerVars, listResp, resp, lockVars, dels>>

\* Mutant: the send always succeeds, as on a channel without a capacity.
ScanPushUnbounded ==
    /\ spc = "push"
    /\ taskChannel' = Append(taskChannel, Head(stasks))
    /\ stasks' = Tail(stasks)
    /\ spc' = IF Tail(stasks) = <<>> THEN "select" ELSE "push"
    /\ UNCHANGED <<storeVars, now, chClosed, ctxDone, workerVars, listResp, resp, lockVars, dels>>

\* checkAndQueueTasks: one round of the loop, a non-blocking send.
ScanPush ==
    /\ spc = "push"
    /\ taskChannel' = IF Len(taskChannel) < QueueCap
                      THEN Append(taskChannel, Head(stasks))
                      ELSE taskChannel
    /\ stasks' = Tail(stasks)
    /\ spc' = IF Tail(stasks) = <<>> THEN "select" ELSE "push"
    /\ UNCHANGED <<storeVars, now, chClosed, ctxDone, workerVars, listResp, resp, lockVars, dels>>

\* Mutant: the scan runs in a goroutine of its own, so that ctx.Done() can be
\* taken and the channel closed while a scan is pushing.
ScanStopDuringScan ==
    /\ spc \in {"select", "push"}
    /\ ctxDone
    /\ ~chClosed
    /\ chClosed' = TRUE
    /\ spc' = IF spc = "select" THEN "done" ELSE spc
    /\ UNCHANGED <<storeVars, now, taskChannel, ctxDone, stasks, workerVars, listResp, resp, lockVars, dels>>

\* Start: the select takes ctx.Done(), closes the channel and returns.
ScanStop ==
    /\ spc = "select"
    /\ ctxDone
    /\ chClosed' = TRUE
    /\ spc' = "done"
    /\ UNCHANGED <<storeVars, now, taskChannel, ctxDone, stasks, workerVars, listResp, resp, lockVars, dels>>

\* Mutant: the worker's select has no ctx.Done() case; only the closed and
\* empty channel ends the goroutine.
WorkerExitOnClose(w) ==
    /\ wpc[w] = "recv"
    /\ chClosed /\ taskChannel = <<>>
    /\ wpc' = [wpc EXCEPT ![w] = "exit"]
    /\ UNCHANGED <<storeVars, now, chanVars, ctxDone, scanVars, wid, wtask, listResp, resp, lockVars, dels>>

\* processTasksFromChannel: the select takes ctx.Done(), or the receive
\* reports the channel closed and empty; the goroutine returns.
WorkerExit(w) ==
    /\ wpc[w] = "recv"
    /\ ctxDone \/ (chClosed /\ taskChannel = <<>>)
    /\ wpc' = [wpc EXCEPT ![w] = "exit"]
    /\ UNCHANGED <<storeVars, now, chanVars, ctxDone, scanVars, wid, wtask, listResp, resp, lockVars, dels>>

\* autoCompleteTask back in the receive loop.
WorkerReturn(w) ==
    /\ wpc' = [wpc EXCEPT ![w] = "recv"]
    /\ wid' = [wid EXCEPT ![w] = 0]
    /\ wtask' = [wtask EXCEPT ![w] = NoTask]

\* Mutant: the status test lets a completed task through.
StillOpenAny(task) == IsValidStatus(task.status)

\* The status test of autoCompleteTask.
StillOpen(task) ==
    task.status = TaskStatusPending \/ task.status = TaskStatusInProgress

\* Mutant: a FindByID error ends the worker goroutine instead of the call.
WorkerRecvExitOnErr(w) ==
    /\ wpc[w] = "recv"
    /\ ~ctxDone
    /\ taskChannel # <<>>
    /\ taskChannel' = Tail(taskChannel)
    /\ IF FindByID(Head(taskChannel)).err = ""
       THEN IF StillOpen(FindByID(Head(taskChannel)).task)
            THEN /\ wpc' = [wpc EXCEPT ![w] = "check"]
                 /\ wid' = [wid EXCEPT ![w] = Head(taskChannel)]
                 /\ wtask' = [wtask EXCEPT ![w] = FindByID(Head(taskChannel)).task]
            ELSE WorkerReturn(w)
       ELSE /\ wpc' = [wpc EXCEPT ![w] = "exit"]
            /\ UNCHANGED <<wid, wtask>>
    /\ UNCHANGED <<storeVars, now, chClosed, ctxDone, scanVars, listResp, resp, lockVars, dels>>

\* Mutant: the worker trusts the scan and goes on with any task it finds.
WorkerRecvTrustScan(w) ==
    /\ wpc[w] = "recv"
    /\ ~ctxDone
    /\ taskChannel # <<>>
    /\ taskChannel' = Tail(taskChannel)
    /\ IF FindByID(Head(taskChannel)).err = ""
       THEN /\ wpc' = [wpc EXCEPT ![w] = "check"]
            /\ wid' = [wid EXCEPT ![w] = Head(taskChannel)]
            /\ wtask' = [wtask EXCEPT ![w] = FindByID(Head(taskChannel)).task]
       ELSE WorkerReturn(w)
    /\ UNCHANGED <<storeVars, now, chClosed, ctxDone, scanVars, listResp, resp, lockVars, dels>>

\* processTasksFromChannel: the select receives an identifier;
\* autoCompleteTask calls FindByID, under a ctx that is not cancelled, and
\* tests the status of the task returned.
WorkerRecv(w) ==
    /\ wpc[w] = "recv"
    /\ ~ctxDone
    /\ taskChannel # <<>>
    /\ taskChannel' = Tail(taskChannel)
    /\ IF FindByID(Head(taskChannel)).err = "" /\ StillOpen(FindByID(Head(taskChannel)).task)
       THEN /\ wpc' = [wpc EXCEPT ![w] = "check"]
            /\ wid' = [wid EXCEPT ![w] = Head(taskChannel)]
            /\ wtask' = [wtask EXCEPT ![w] = FindByID(Head(taskChannel)).task]
       ELSE WorkerReturn(w)
    /\ UNCHANGED <<storeVars, now, chClosed, ctxDone, scanVars, listResp, resp, lockVars, dels>>

\* processTasksFromChannel receives an identifier and the store call of
\* FindByID fails.
WorkerRecvFail(w) ==
    /\ wpc[w] = "recv"
    /\ taskChannel # <<>>
    /\ taskChannel' = Tail(taskChannel)
    /\ WorkerReturn(w)
    /\ UNCHANGED <<storeVars, now, chClosed, ctxDone, scanVars, listResp, resp, lockVars, dels>>

\* Mutant: the age test is turned round and passes the young tasks.
OldEnoughAfter(task) == task.created_at > now - Window

\* The age test of autoCompleteTask, at the current time.
OldEnough(task) == task.created_at < now - Window

\* Mutant: the worker writes pending instead of completed.
WorkerCompleteReopen(w) ==
    /\ wpc[w] = "check"
    /\ OldEnough(wtask[w]) => ~ctxDone
    /\ IF OldEnough(wtask[w])
       THEN UpdateStatus(wid[w], TaskStatusPending)
       ELSE UNCHANGED storeVars
    /\ WorkerReturn(w)
    /\ UNCHANGED <<now, chanVars, ctxDone, scanVars, listResp, resp, lockVars, dels>>

\* autoCompleteTask: compute the threshold, test the fetched task's age and,
\* if it is old enough, UpdateStatus(taskID, completed), which succeeds only
\* under a ctx that is not cancelled.
WorkerComplete(w) ==
    /\ wpc[w] = "check"
    /\ OldEnough(wtask[w]) => ~ctxDone
    /\ IF OldEnough(wtask[w])
       THEN UpdateStatus(wid[w], TaskStatusCompleted)
       ELSE UNCHANGED storeVars
    /\ WorkerReturn(w)
    /\ UNCHANGED <<now, chanVars, ctxDone, scanVars, listResp, resp, lockVars, dels>>

\* Mutant: a failed UpdateStatus puts the identifier back on the queue.
WorkerCompleteFailRequeue(w) ==
    /\ wpc[w] = "check"
    /\ OldEnough(wtask[w])
    /\ WorkerReturn(w)
    /\ taskChannel' = IF Len(taskChannel) < QueueCap
                      THEN Append(taskChannel, wid[w])
                      ELSE taskChannel
    /\ UNCHANGED <<storeVars, now, chClosed, ctxDone, scanVars, listResp, resp, lockVars, dels>>

\* autoCompleteTask: the task is old enough and the store call of UpdateStatus
\* fails.
WorkerCompleteFail(w) ==
    /\ wpc[w] = "check"
    /\ OldEnough(wtask[w])
    /\ WorkerReturn(w)
    /\ UNCHANGED <<storeVars, now, chanVars, ctxDone, scanVars, listResp, resp, lockVars, dels>>

\* main: cancel() on shutdown.
Cancel ==
    /\ ~ctxDone
    /\ ctxDone' = TRUE
    /\ UNCHANGED <<storeVars, now, chanVars, scanVars, workerVars, listResp, resp, lockVars, dels>>

\* The clock advances.
Tick ==
    /\ now < MaxTime
    /\ now' = now + 1
    /\ UNCHANGED <<storeVars, chanVars, ctxDone, scanVars, workerVars, listResp, resp, lockVars, dels>>

NoListing == [user |-> "", filter |-> [Status |-> <<>>, Page |-> 0, Limit |-> 0],
              err |-> "", tasks |-> <<>>, page |-> 0, limit |-> 0,
              totalCount |-> 0, totalPages |-> 0]

\* A DeleteTask request that has not started.
Deleters == 1..NumDeleters
NoDelete == [pc |-> "idle", user |-> "", id |-> 0, task |-> NoTask, err |-> ""]

\* No response written yet.
NoResponse ==
    [op |-> "", user |-> "", id |-> 0, code |-> 0, message |-> <<>>,
     storeErr |-> "", invalid |-> FALSE, body |-> NoTask]

Init ==
    /\ collection = [id \in {} |-> NoTask]
    /\ nextID = 1
    /\ now = 0
    /\ taskChannel = <<>>
    /\ chClosed = FALSE
    /\ ctxDone = FALSE
    /\ spc = "select"
    /\ stasks = <<>>
    /\ wpc = [w \in Workers |-> "recv"]
    /\ wid = [w \in Workers |-> 0]
    /\ wtask = [w \in Workers |-> NoTask]
    /\ listResp = NoListing
    /\ resp = NoResponse
    /\ mu = [writers |-> {}, readers |-> {}]
    /\ calls = [g \in Goroutines |-> ""]
    /\ waiting = [g \in Goroutines |-> ""]
    /\ dels = [d \in Deleters |-> NoDelete]

\* The requests of one task owner, while the worker runs: the worker never
\* reads user_id.
OwnerCreates ==
    /\ nextID <= MaxTasks
    /\ \E title \in Titles, status \in StatusInputs : CreateTask("alice", title, status)

OwnerDeletes == \E id \in TaskIDs : DeleteTask("alice", id)

Next ==
    \/ Tick
    \/ Cancel
    \/ OwnerCreates
    \/ OwnerDeletes
    \/ ScanTick
    \/ ScanTickFail
    \/ ScanPush
    \/ ScanStop
    \/ \E w \in Workers : WorkerRecv(w)
    \/ \E w \in Workers : WorkerExit(w)
    \/ \E w \in Workers : WorkerRecvFail(w)
    \/ \E w \in Workers : WorkerComplete(w)
    \/ \E w \in Workers : WorkerCompleteFail(w)

Spec == Init /\ [][Next]_vars

\* The worker while cancellation has not fired: the clock, the scanner and the
\* workers keep being scheduled, and a store call that is tried again and
\* again succeeds in the end.
NextLive ==
    \/ Tick
    \/ OwnerCreates
    \/ OwnerDeletes
    \/ ScanTick
    \/ ScanTickFail
    \/ ScanPush
    \/ \E w \in Workers :
          \/ WorkerRecv(w)
          \/ WorkerRecvFail(w)
          \/ WorkerComplete(w)
          \/ WorkerCompleteFail(w)

Fairness ==
    /\ WF_vars(Tick)
    /\ WF_vars(ScanTick)
    /\ WF_vars(ScanPush)
    /\ \A w \in Workers : SF_vars(WorkerRecv(w)) /\ SF_vars(WorkerComplete(w))

SpecLive == Init /\ [][NextLive]_vars /\ Fairness

\* The shutdown specification: every step of Spec, where a select with a ready
\* case is eventually taken, the scan's pushes go on, and a worker's store call
\* in flight returns (with a result or with an error).
FairnessStop ==
    /\ WF_vars(ScanPush)
    /\ WF_vars(ScanStop)
    /\ \A w \in Workers :
          /\ WF_vars(WorkerExit(w))
          /\ WF_vars(WorkerComplete(w) \/ WorkerCompleteFail(w))

SpecStop == Init /\ [][Next]_vars /\ FairnessStop

\* The listing specification: two owners create tasks as the clock moves on by
\* milliseconds, and an owner or an admin lists them.
ListCreates ==
    /\ nextID <= MaxListTasks
    /\ \E u \in {"alice", "bob"}, status \in {"", "completed"} :
          CreateTask(u, "Write spec", status)

TickMs ==
    /\ now + Millisecond <= MaxListTime
    /\ now' = now + Millisecond
    /\ UNCHANGED <<storeVars, chanVars, ctxDone, scanVars, workerVars, listResp, resp, lockVars, dels>>

Filters ==
    [Status : {<<>>, <<TaskStatusPending>>, <<TaskStatusCompleted>>},
     Page : 0..MaxPage, Limit : 0..MaxLimit]

\* One listing is observed in a run; it reads the store and changes nothing.
Lists ==
    /\ listResp = NoListing
    /\ \E u \in {"alice", "root"}, filter \in Filters : ListTasksCall(u, filter)

NextList == TickMs \/ ListCreates \/ Lists \/ ListTasksFail

SpecList == Init /\ [][NextList]_vars

\* ------------------------------------------------------------------ handlers
\* strconv.Atoi: an optional sign and one or more decimal digits.
Digits == {"0", "1", "2", "3", "4", "5", "6", "7", "8", "9"}
DigitVal(c) ==
    CASE c = "0" -> 0 [] c = "1" -> 1 [] c = "2" -> 2 [] c = "3" -> 3 [] c = "4" -> 4
      [] c = "5" -> 5 [] c = "6" -> 6 [] c = "7" -> 7 [] c = "8" -> 8 [] c = "9" -> 9
      [] c = "a" -> 10 [] c = "b" -> 11 [] c = "c" -> 12 [] c = "d" -> 13
      [] c = "e" -> 14 [] c = "f" -> 15

RECURSIVE PositionalValue(_, _)
PositionalValue(s, base) ==
    IF s = <<>> THEN 0
    ELSE base * PositionalValue(SubSeq(s, 1, Len(s) - 1), base) + DigitVal(s[Len(s)])

Atoi(s) ==
    LET signed == s # <<>> /\ s[1] \in {"+", "-"}
        digits == IF signed THEN Tail(s) ELSE s
    IN  IF digits = <<>> \/ \E i \in 1..Len(digits) : digits[i] \notin Digits
        THEN [n |-> 0, err |-> TRUE]
        ELSE [n |-> (IF s[1] = "-" THEN -1 ELSE 1) * PositionalValue(digits, 10),
              err |-> FALSE]

\* primitive.ObjectIDFromHex: exactly IDHexLen hex digits.
HexDigits == Digits \cup {"a", "b", "c", "d", "e", "f"}
ObjectIDFromHex(s) ==
    IF Len(s) # IDHexLen \/ \E i \in 1..Len(s) : s[i] \notin HexDigits
    THEN [id |-> 0, err |-> TRUE]
    ELSE [id |-> PositionalValue(s, 16), err |-> FALSE]

\* The text of the error a failing store call returns.
StoreError == "server selection error: connection refused"

\* fmt.Errorf(prefix + "%w", err): the prefix followed by the text of err.
Errorf(prefix, err) == <<prefix>> \o err

\* utils.RespondError / RespondJSON, as the response a handler writes.
Respond(op, u, id, code, message, storeErr, invalid, body) ==
    [op |-> op, user |-> u, id |-> id, code |-> code, message |-> message,
     storeErr |-> storeErr, invalid |-> invalid, body |-> body]

\* CreateTask handler: decode the body, call the service, answer 400 with the
\* error's text on any error and 201 with the task otherwise.  fault: the
\* store call fails.
HandleCreateTask(u, body, fault) ==
    LET status == IF body.status = "" THEN TaskStatusPending ELSE body.status
        task == NewTask(u, body.title, "", status)
    IN  IF ~body.valid
        THEN /\ resp' = Respond("create", u, 0, 400, <<"invalid request body">>, "",
                                TRUE, NoTask)
             /\ UNCHANGED storeVars
        ELSE IF CreateTaskErr(body.title, body.status) # ""
        THEN /\ resp' = Respond("create", u, 0, 400,
                                <<CreateTaskErr(body.title, body.status)>>, "", TRUE,
                                NoTask)
             /\ UNCHANGED storeVars
        ELSE IF fault
        THEN /\ resp' = Respond("create", u, 0, 400,
                                Errorf("failed to create task: ",
                                       Errorf("failed to create task: ", <<StoreError>>)),
                                StoreError, FALSE, NoTask)
             /\ UNCHANGED storeVars
        ELSE /\ resp' = Respond("create", u, nextID, 201, <<>>, "", FALSE,
                                [task EXCEPT !.id = nextID])
             /\ Create(task)

\* GetTask handler: the response for the error the service returned.
GetTaskResponse(u, id, err, task) ==
    IF err = <<>> THEN Respond("get", u, id, 200, <<>>, "", FALSE, task)
    ELSE IF err = <<"task not found">>
    THEN Respond("get", u, id, 404, <<"task not found">>, "", FALSE, NoTask)
    ELSE IF err = <<"unauthorized access to task">>
    THEN Respond("get", u, id, 403,
                 <<"you don't have permission to access this task">>, "", FALSE, NoTask)
    ELSE Respond("get", u, id, 500, <<"failed to get task">>, StoreError, FALSE, NoTask)

\* GetTask handler.  fault: the store call of FindByID fails.
HandleGetTask(u, hex, fault) ==
    /\ resp' =
         IF ObjectIDFromHex(hex).err
         THEN Respond("get", u, 0, 400, <<"invalid task ID">>, "", TRUE, NoTask)
         ELSE IF fault
         THEN GetTaskResponse(u, ObjectIDFromHex(hex).id,
                              Errorf("failed to find task: ", <<StoreError>>), NoTask)
         ELSE LET r == GetTask(u, ObjectIDFromHex(hex).id)
              IN  GetTaskResponse(u, ObjectIDFromHex(hex).id,
                                  IF r.err = "" THEN <<>> ELSE <<r.err>>, r.task)
    /\ UNCHANGED storeVars

\* DeleteTask handler: the response for the error the service returned.
DeleteTaskResponse(u, id, err) ==
    IF err = <<>>
    THEN Respond("delete", u, id, 200, <<"task deleted successfully">>, "", FALSE, NoTask)
    ELSE IF err = <<"task not found">>
    THEN Respond("delete", u, id, 404, <<"task not found">>, "", FALSE, NoTask)
    ELSE IF err = <<"unauthorized to delete this task">>
    THEN Respond("delete", u, id, 403,
                 <<"you don't have permission to delete this task">>, "", FALSE, NoTask)
    ELSE Respond("delete", u, id, 500, <<"failed to delete task">>, StoreError, FALSE,
                 NoTask)

\* DeleteTask handler.  fault: the store call that fails, "FindByID" or
\* "Delete", or "" for none; Delete is reached only past both checks.
HandleDeleteTask(u, hex, fault) ==
    LET id == ObjectIDFromHex(hex).id
    IN  IF ObjectIDFromHex(hex).err
        THEN /\ resp' = Respond("delete", u, 0, 400, <<"invalid task ID">>, "", TRUE,
                                NoTask)
             /\ UNCHANGED storeVars
        ELSE IF fault = "FindByID"
        THEN /\ resp' = DeleteTaskResponse(u, id,
                            Errorf("failed to find task: ", <<StoreError>>))
             /\ UNCHANGED storeVars
        ELSE IF DeleteTaskErr(u, id) # ""
        THEN /\ resp' = DeleteTaskResponse(u, id, <<DeleteTaskErr(u, id)>>)
             /\ UNCHANGED storeVars
        ELSE IF fault = "Delete"
        THEN /\ resp' = DeleteTaskResponse(u, id,
                            Errorf("failed to delete task: ", <<StoreError>>))
             /\ UNCHANGED storeVars
        ELSE /\ resp' = DeleteTaskResponse(u, id, <<>>)
             /\ Delete(id)

\* Mutant: any positive limit is taken from the query.
QueryFilterNoCap(pageStr, limitStr, statusStr) ==
    [Status |-> IF statusStr = "" THEN <<>> ELSE <<statusStr>>,
     Page |-> IF pageStr # <<>> /\ ~Atoi(pageStr).err /\ Atoi(pageStr).n > 0
              THEN Atoi(pageStr).n ELSE HandlerPage,
     Limit |-> IF limitStr # <<>> /\ ~Atoi(limitStr).err /\ Atoi(limitStr).n > 0
               THEN Atoi(limitStr).n ELSE HandlerLimit]

\* ListTasks handler: the filter it builds from the query parameters.
QueryFilter(pageStr, limitStr, statusStr) ==
    [Status |-> IF statusStr = "" THEN <<>> ELSE <<statusStr>>,
     Page |-> IF pageStr # <<>> /\ ~Atoi(pageStr).err /\ Atoi(pageStr).n > 0
              THEN Atoi(pageStr).n ELSE HandlerPage,
     Limit |-> IF /\ limitStr # <<>> /\ ~Atoi(limitStr).err
                  /\ Atoi(limitStr).n > 0 /\ Atoi(limitStr).n <= HandlerMaxLimit
               THEN Atoi(limitStr).n ELSE HandlerLimit]

\* What a list response carries besides the listing: the query it answers and
\* the page and limit the repository turned into its skip and limit options.
ListBody(pageStr, limitStr, statusStr, filter, listing) ==
    [query |-> [page |-> pageStr, limit |-> limitStr, status |-> statusStr],
     storePage |-> PageOf(filter), storeLimit |-> LimitOf(filter),
     listing |-> listing]

\* ListTasks handler.  fault: a store call of the listing fails.  A panic of
\* the service writes no response (code 0).
HandleListTasks(u, pageStr, limitStr, statusStr, fault) ==
    LET filter == QueryFilter(pageStr, limitStr, statusStr)
    IN  /\ IF statusStr # "" /\ ~IsValidStatus(statusStr)
           THEN resp' = Respond("list", u, 0, 400,
                                <<"invalid status filter, must be one of: pending, in_progress, completed">>,
                                "", TRUE,
                                [query |-> [page |-> pageStr, limit |-> limitStr,
                                            status |-> statusStr]])
           ELSE IF fault
           THEN resp' = Respond("list", u, 0, 500, <<"failed to list tasks">>,
                                StoreError, FALSE,
                                ListBody(pageStr, limitStr, statusStr, filter, NoListing))
           ELSE \E r \in ListTasks(u, filter) :
                   resp' = Respond("list", u, 0, IF r.err = "" THEN 200 ELSE 0,
                                   <<>>, "", FALSE,
                                   ListBody(pageStr, limitStr, statusStr, filter, r))
        /\ UNCHANGED storeVars

\* The API specification: two owners create tasks, and one request of alice,
\* bob or the admin is observed with its response.
APIUsers == {"alice", "bob", "root"}
HexInputs == [1..IDHexLen -> {"0", "1", "2", "z"}] \cup {<<>>}
Bodies == [valid : BOOLEAN, title : Titles, status : {"", "completed", "archived"}]
PageInputs == {<<>>, <<"a">>, <<"0">>, <<"-", "1">>, <<"2">>}
LimitInputs ==
    {<<>>, <<"x">>, <<"0">>, <<"-", "5">>, <<"2">>, <<"1", "0", "0">>, <<"1", "0", "1">>}

Creates ==
    /\ resp = NoResponse
    /\ nextID <= MaxListTasks
    /\ \E u \in APIUsers, body \in Bodies, fault \in BOOLEAN :
          HandleCreateTask(u, body, fault)
    /\ UNCHANGED <<now, chanVars, ctxDone, scanVars, workerVars, listResp, lockVars, dels>>

Gets ==
    /\ resp = NoResponse
    /\ \E u \in APIUsers, hex \in HexInputs, fault \in BOOLEAN :
          HandleGetTask(u, hex, fault)
    /\ UNCHANGED <<now, chanVars, ctxDone, scanVars, workerVars, listResp, lockVars, dels>>

Deletes ==
    /\ resp = NoResponse
    /\ \E u \in APIUsers, hex \in HexInputs, fault \in {"", "FindByID", "Delete"} :
          HandleDeleteTask(u, hex, fault)
    /\ UNCHANGED <<now, chanVars, ctxDone, scanVars, workerVars, listResp, lockVars, dels>>

ListRequests ==
    /\ resp = NoResponse
    /\ \E u \in APIUsers, pageStr \in PageInputs, limitStr \in LimitInputs,
          statusStr \in {"", "completed", "archived"}, fault \in BOOLEAN :
          HandleListTasks(u, pageStr, limitStr, statusStr, fault)
    /\ UNCHANGED <<now, chanVars, ctxDone, scanVars, workerVars, listResp, lockVars, dels>>

NextAPI == ListCreates \/ Creates \/ Gets \/ Deletes \/ ListRequests

SpecAPI == Init /\ [][NextAPI]_vars

\* The delete specification: alice and bob create tasks, and DeleteTask
\* requests of alice, bob and the admin run side by side, each as its two
\* repository calls.
DeleteCreates ==
    /\ nextID <= MaxTasks
    /\ \E u \in {"alice", "bob"} : CreateTask(u, "Write spec", "")

DeleteFinds == \E d \in Deleters, u \in APIUsers, id \in TaskIDs : DeleteTaskFind(d, u, id)

DeleteDeletes == \E d \in Deleters : DeleteTaskDelete(d)

NextDelete == DeleteCreates \/ DeleteFinds \/ DeleteDeletes

SpecDelete == Init /\ [][NextDelete]_vars

\* The lock specification: requests, the scanner and a worker go in and out of
\* the repository's methods.
Calls == \E g \in Goroutines : \E method \in MethodsOf(g) : Call(g, method)

Enters == \E g \in Goroutines : \E method \in MethodsOf(g) : Enter(g, method)

Leaves == \E g \in Goroutines : Leave(g)

NextLock == Calls \/ Enters \/ Leaves

SpecLock == Init /\ [][NextLock]_vars

\* The lock specification with its scheduling: a store call returns by its
\* deadline (weak fairness of Leave), a waiting reader is let in when no
\* writer holds or waits (weak fairness), and a waiting writer is not passed
\* over for ever by other writers (strong fairness: sync.Mutex hands the lock
\* to a starving waiter).
FairnessLock ==
    \A g \in Goroutines :
        /\ WF_vars(Leave(g))
        /\ \A method \in MethodsOf(g) :
              IF LockMode(method) = "Lock"
              THEN SF_vars(Enter(g, method))
              ELSE WF_vars(Enter(g, method))

SpecLockLive == Init /\ [][NextLock]_vars /\ FairnessLock

\* ------------------------------------------------------------------ claims
\* A worker takes the identifier at the head of the channel.
Received == taskChannel # <<>> /\ taskChannel' = Tail(taskChannel)

\* Worker w leaves autoCompleteTask's age test, back into its receive loop.
Completes(w) == wpc[w] = "check" /\ wpc'[w] = "recv"

\* C1: when a worker receives the identifier of a task that was deleted after
\* the scanner enqueued it, the store is left as it is (no record under that
\* identifier, no other record changed), no request is affected and every
\* worker is where it was: the receiving worker is back in its receive loop.
C1_DeletedTaskSkipped ==
    [][(Received /\ Head(taskChannel) \notin DOMAIN collection)
        => /\ collection' = collection
           /\ nextID' = nextID
           /\ Head(taskChannel) \notin DOMAIN collection'
           /\ wpc' = wpc
           /\ listResp' = listResp]_vars

\* An identifier the scanner enqueued, whose task was deleted since, is at the
\* head of the channel and a worker is waiting to receive it.
C1_Witness ==
    /\ taskChannel # <<>>
    /\ Head(taskChannel) \notin DOMAIN collection
    /\ Head(taskChannel) < nextID
    /\ \E w \in Workers : wpc[w] = "recv"
    /\ collection # <<>>

\* C2: when a worker receives the identifier of a task whose status is
\* completed, no document changes (status, updated_at and all other fields
\* stay) and no worker goes on to the update: UpdateStatus is not called.
C2_CompletedIsNoOp ==
    [][(/\ Received
        /\ Head(taskChannel) \in DOMAIN collection
        /\ collection[Head(taskChannel)].status = TaskStatusCompleted)
        => /\ collection' = collection
           /\ wpc' = wpc]_vars

\* A completed task's identifier is at the head of the channel and a worker is
\* waiting to receive it; the task was completed by a worker after its creation.
C2_Witness ==
    /\ taskChannel # <<>>
    /\ Head(taskChannel) \in DOMAIN collection
    /\ collection[Head(taskChannel)].status = TaskStatusCompleted
    /\ collection[Head(taskChannel)].updated_at > collection[Head(taskChannel)].created_at
    /\ \E w \in Workers : wpc[w] = "recv"

\* C3: once the scanner has closed the channel and every worker goroutine has
\* returned, no identifier is left in the channel: what was buffered was
\* received by a worker before the workers exited.
C3_QueueDrainedAtExit ==
    (chClosed /\ \A w \in Workers : wpc[w] = "exit") => taskChannel = <<>>

\* The identifier the scan is about to push can be found while open: every
\* FindPendingTasks at the current time returns it.
Rediscovered(id) ==
    (id \in DOMAIN collection /\ StillOpen(collection[id]))
        => \A s \in FindPendingTasks(now - Window) : \E i \in 1..Len(s) : s[i].id = id

\* C4: a scan that reaches a record while the channel is full never blocks;
\* the push is abandoned, channel and store stay as they are, the scan goes on
\* to its remaining records, and the record is found again by a later
\* FindPendingTasks for as long as it is pending or in_progress.
C4_FullChannelDrops ==
    /\ [](spc = "push" => ENABLED ScanPush)
    /\ [][(spc = "push" /\ Len(taskChannel) = QueueCap /\ stasks' # stasks)
           => /\ taskChannel' = taskChannel
              /\ collection' = collection
              /\ stasks' = Tail(stasks)
              /\ spc' = (IF Tail(stasks) = <<>> THEN "select" ELSE "push")
              /\ Rediscovered(Head(stasks))]_vars
    /\ [][\A id \in TaskIDs :
             (/\ id \in DOMAIN collection /\ StillOpen(collection[id])
              /\ collection[id].created_at < BsonTime(now - Window)
              /\ id \in DOMAIN collection' /\ StillOpen(collection'[id]))
             => Rediscovered(id)']_vars

\* The channel is full, and the scan still has two records to push, the first
\* of them pending or in_progress.
C4_Witness ==
    /\ spc = "push"
    /\ Len(taskChannel) = QueueCap
    /\ Len(stasks) >= 2
    /\ Head(stasks) \in DOMAIN collection
    /\ StillOpen(collection[Head(stasks)])

\* C9: a worker goes on to the age test only with the record its own FindByID
\* returned, and only if that record is pending or in_progress; it changes the
\* store only if that record was created strictly before (now - window) at the
\* time of the test, and then only by completing the record it fetched; and a
\* record becomes completed in no other way.
C9_CompletesOnlyRevalidated ==
    /\ [][\A w \in Workers :
             (wpc[w] = "recv" /\ wpc'[w] = "check")
             => /\ wid'[w] \in DOMAIN collection
                /\ wtask'[w] = collection[wid'[w]]
                /\ wtask'[w].status \in {TaskStatusPending, TaskStatusInProgress}]_vars
    /\ [][\A w \in Workers :
             (Completes(w) /\ collection' # collection)
             => /\ wtask[w].status \in {TaskStatusPending, TaskStatusInProgress}
                /\ wtask[w].created_at < now - Window
                /\ wtask[w].id = wid[w]
                /\ \A id \in DOMAIN collection :
                      id # wid[w] => (id \in DOMAIN collection' /\ collection'[id] = collection[id])]_vars
    /\ [][\A id \in DOMAIN collection :
             (/\ id \in DOMAIN collection'
              /\ collection[id].status # TaskStatusCompleted
              /\ collection'[id].status = TaskStatusCompleted)
             => \E w \in Workers : Completes(w) /\ wid[w] = id]_vars

\* A worker has completed a task it re-validated: a record created pending or
\* in_progress is completed, with updated_at later than created_at, while a
\* second, younger record is still open.
C9_Witness ==
    \E id, other \in DOMAIN collection :
        /\ collection[id].status = TaskStatusCompleted
        /\ collection[id].updated_at > collection[id].created_at
        /\ StillOpen(collection[other])
        /\ collection[other].created_at > collection[id].created_at

\* The identifiers of the open records created before time t, and those of the
\* records in a result of FindPendingTasks.
OpenBefore(t) ==
    {id \in DOMAIN collection :
        StillOpen(collection[id]) /\ collection[id].created_at < t}
FoundIDs(s) == {s[i].id : i \in 1..Len(s)}

\* A scan hands the scanner the result of its FindPendingTasks.
Scanned == spc = "select" /\ spc' = "push"

Overdue(id) ==
    /\ id \in DOMAIN collection
    /\ StillOpen(collection[id])
    /\ collection[id].created_at < now - Window
    /\ collection[id].created_at < BsonTime(MaxTime - Window)

\* C5: while cancellation has not fired and the scheduling is fair, every task
\* that is pending or in_progress and was created more than the window ago is
\* in the end completed, with updated_at later than created_at, unless it is
\* deleted first; also when the channel is full or an attempt has failed.
C5_OverdueEventuallyCompleted ==
    \A id \in TaskIDs :
        Overdue(id) ~>
            (id \in DOMAIN collection =>
                /\ collection[id].status = TaskStatusCompleted
                /\ collection[id].updated_at > collection[id].created_at)

\* C5 witness: a worker has completed an overdue task while the channel was
\* full and a second overdue task was still waiting.
C5_Witness ==
    /\ Len(taskChannel) = QueueCap
    /\ \E id, other \in DOMAIN collection :
          /\ collection[id].status = TaskStatusCompleted
          /\ collection[id].updated_at > collection[id].created_at
          /\ Overdue(other)

\* A step on which a listing returns a response without an error.
Listed == listResp' # listResp /\ listResp'.err = ""

\* The records of the present store that a caller's listing is about.
Scope(u, filter) ==
    {d \in Documents : /\ Role(u) = UserRoleAdmin \/ d.user_id = u
                       /\ filter.Status = <<>> \/ d.status = filter.Status[1]}

\* C6: a listing for a caller who is not an admin holds only records owned by
\* that caller and its totalCount counts exactly the caller's records matching
\* the filter; the listing over every owner's records goes to an admin only.
C6_NonAdminListingScoped ==
    [][Listed =>
         LET r == listResp'
             mine == {d \in Documents : d.user_id = r.user /\ MatchesFilter(d, r.filter)}
             every == {d \in Documents : MatchesFilter(d, r.filter)}
         IN  /\ Role(r.user) # UserRoleAdmin =>
                  /\ \A i \in DOMAIN r.tasks : r.tasks[i].user_id = r.user
                  /\ r.totalCount = Cardinality(mine)
             /\ Role(r.user) = UserRoleAdmin => r.totalCount = Cardinality(every)]_vars

\* C6 witness: alice has listed her records while the store held a matching
\* record of bob's, older than one she was given.
C6_Witness ==
    /\ listResp.err = "" /\ listResp.user = "alice"
    /\ Len(listResp.tasks) >= 1
    /\ \E d \in Documents :
          /\ d.user_id = "bob" /\ MatchesFilter(d, listResp.filter)
          /\ \E i \in DOMAIN listResp.tasks : d.id < listResp.tasks[i].id

\* C7: for a listing with limit > 0, totalPages is the least number of pages
\* of that limit holding totalCount records: 0 for no records, and otherwise
\* the quotient, one more when there is a remainder.
C7_TotalPagesIsCeiling ==
    [][Listed /\ listResp'.filter.Limit > 0 =>
         LET n == listResp'.totalCount
             l == listResp'.filter.Limit
             k == listResp'.totalPages
         IN  /\ k >= 0
             /\ k * l >= n
             /\ k > 0 => (k - 1) * l < n
             /\ n = 0 => k = 0]_vars

\* C7 witness: three records at two a page are reported as two pages.
C7_Witness ==
    /\ listResp.err = "" /\ listResp.limit = 2
    /\ listResp.totalCount = 3 /\ listResp.totalPages = 2

\* C8: a listing with page p >= 1 and limit l >= 1 reports totalCount = n, the
\* number of matching records, and returns the records at positions
\* (p-1)*l+1 .. min(p*l, n) of the matching records sorted by creation time
\* descending: that many distinct matching records, the one at position k
\* having fewer than k matching records newer than it and at least k as new.
C8_PageIsWindowOfSorted ==
    [][Listed /\ listResp'.filter.Page >= 1 /\ listResp'.filter.Limit >= 1 =>
         LET r == listResp'
             M == Scope(r.user, r.filter)
             n == Cardinality(M)
             lo == (r.filter.Page - 1) * r.filter.Limit
             hi == IF r.filter.Page * r.filter.Limit < n
                   THEN r.filter.Page * r.filter.Limit ELSE n
             t == r.tasks
         IN  /\ r.totalCount = n
             /\ Len(t) = IF hi > lo THEN hi - lo ELSE 0
             /\ \A i \in 1..Len(t) : t[i] \in M
             /\ \A i, j \in 1..Len(t) : i < j => t[i] # t[j]
             /\ \A i \in 1..Len(t) :
                   /\ Cardinality({d \in M : d.created_at > t[i].created_at}) < lo + i
                   /\ Cardinality({d \in M : d.created_at >= t[i].created_at}) >= lo + i]_vars

\* C8 witness: an owner with three tasks, created at two different times,
\* asks for page 2 at two a page and gets the one oldest record, in two pages.
C8_Witness ==
    /\ listResp.err = "" /\ listResp.user = "alice"
    /\ listResp.filter.Page = 2 /\ listResp.filter.Limit = 2
    /\ listResp.totalCount = 3 /\ listResp.totalPages = 2
    /\ Len(listResp.tasks) = 1
    /\ \E d \in Documents :
          d.user_id = "alice" /\ d.created_at > listResp.tasks[1].created_at


\* C11: UpdateStatus on an identifier no document has returns "task not
\* found"; a worker whose task was deleted after its FindByID leaves the store
\* as it is, and no document appears under that identifier.
C11_UpdateAbsentNotFound ==
    /\ [](\A id \in TaskIDs :
             id \notin DOMAIN collection => UpdateStatusErr(id) = "task not found")
    /\ [][\A w \in Workers :
             (Completes(w) /\ wid[w] \notin DOMAIN collection)
             => /\ collection' = collection
                /\ nextID' = nextID
                /\ wid[w] \notin DOMAIN collection']_vars

\* C11 witness: a worker has fetched an overdue task and is about to update
\* it, under a live context, and the task has been deleted meanwhile.
C11_Witness ==
    \E w \in Workers :
        /\ wpc[w] = "check"
        /\ wid[w] \notin DOMAIN collection
        /\ OldEnough(wtask[w])
        /\ ~ctxDone


\* C12: while a goroutine is at the storage call of Create, UpdateStatus or
\* Delete, no other goroutine is at the storage call of any repository method;
\* only the Find methods are found inside the repository together.
C12_WritesExclusive ==
    \A g \in Goroutines :
        calls[g] \in {"Create", "UpdateStatus", "Delete"}
            => \A h \in Goroutines \ {g} : calls[h] = ""

\* C12 witness: the worker is at the storage call of UpdateStatus, holding
\* the lock as its writer.
C12_Witness ==
    /\ calls[<<"worker", 1>>] = "UpdateStatus"
    /\ mu.writers = {<<"worker", 1>>}

\* A get or delete request with a well-formed identifier was answered, and no
\* store call of it failed.
Answered(op) ==
    /\ resp' # resp
    /\ resp'.op = op
    /\ ~resp'.invalid
    /\ resp'.storeErr = ""

\* The caller of the answer is neither an admin nor the owner of the record
\* the request addressed.
Stranger ==
    /\ resp'.id \in DOMAIN collection
    /\ Role(resp'.user) # UserRoleAdmin
    /\ collection[resp'.id].user_id # resp'.user

\* The caller of the answer is an admin or the owner of the addressed record.
OwnerOrAdmin ==
    /\ resp'.id \in DOMAIN collection
    /\ (Role(resp'.user) = UserRoleAdmin \/ collection[resp'.id].user_id = resp'.user)

\* C13: GetTask or DeleteTask by a non-admin caller for an existing record of
\* another user is answered with an authorization error (403), which differs
\* in code and text from the not-found error (404) given for an absent record,
\* and the store is left unchanged; the owner or an admin gets the record (get)
\* or removes it (delete).
C13_StrangerForbidden ==
    [][\A op \in {"get", "delete"} : Answered(op) =>
          /\ Stranger =>
                /\ resp'.code = 403
                /\ resp'.message # <<"task not found">>
                /\ collection' = collection
          /\ resp'.id \notin DOMAIN collection =>
                /\ resp'.code = 404
                /\ resp'.message = <<"task not found">>
                /\ collection' = collection
          /\ OwnerOrAdmin =>
                /\ resp'.code = 200
                /\ op = "get" => resp'.body = collection[resp'.id] /\ collection' = collection
                /\ op = "delete" =>
                      /\ resp'.id \notin DOMAIN collection'
                      /\ \A id \in DOMAIN collection \ {resp'.id} :
                            id \in DOMAIN collection' /\ collection'[id] = collection[id]]_vars

\* C13 witness: bob's delete of alice's record was refused and the record is
\* still stored.
C13_Witness ==
    /\ resp.op = "delete"
    /\ resp.code = 403
    /\ resp.user = "bob"
    /\ resp.id \in DOMAIN collection
    /\ collection[resp.id].user_id = "alice"

\* The text of the internal store error appears in the message.
Leaks(message) == \E i \in 1..Len(message) : message[i] = StoreError

\* C14: every answer of create, get, list and delete to a failed request goes
\* by the kind of the failure: invalid input 400, absent record 404, caller
\* without rights 403, and a failed store call 500; no answer carries the text
\* of the internal store error.
C14_FailuresByKind ==
    [][(resp' # resp /\ resp'.op \in {"create", "get", "list", "delete"}) =>
          /\ resp'.invalid => resp'.code = 400
          /\ resp'.storeErr # "" => resp'.code = 500
          /\ ~Leaks(resp'.message)
          /\ \A op \in {"get", "delete"} : Answered(op) =>
                /\ resp'.id \notin DOMAIN collection => resp'.code = 404
                /\ Stranger => resp'.code = 403]_vars

\* A listing request reached the store and was answered.
Listing == resp' # resp /\ resp'.op = "list" /\ resp'.code \in {200, 500}

\* The query parameter is absent, not a number, or not positive.
Unusable(param) == param = <<>> \/ Atoi(param).err \/ Atoi(param).n <= 0

\* C15: the page and limit a listing request brings to the store satisfy
\* page >= 1 and 1 <= limit <= 100; an absent, non-numeric or non-positive
\* page becomes 1 and such a limit becomes 10, a usable one is taken as it is,
\* and a requested limit above 100 does not reach the store.
C15_PageLimitClamped ==
    [][Listing =>
          LET page == resp'.body.query.page
              limit == resp'.body.query.limit
          IN  /\ resp'.body.storePage >= 1
              /\ resp'.body.storeLimit >= 1 /\ resp'.body.storeLimit <= 100
              /\ Unusable(page) => resp'.body.storePage = 1
              /\ ~Unusable(page) => resp'.body.storePage = Atoi(page).n
              /\ Unusable(limit) => resp'.body.storeLimit = 10
              /\ (~Unusable(limit) /\ Atoi(limit).n <= 100) =>
                    resp'.body.storeLimit = Atoi(limit).n
              /\ (~Unusable(limit) /\ Atoi(limit).n > 100) =>
                    resp'.body.storeLimit # Atoi(limit).n]_vars

\* C15 witness: a listing that asked for limit=101 and page=-1 was answered
\* from the store with limit 10 and page 1.
C15_Witness ==
    /\ resp.op = "list"
    /\ resp.code = 200
    /\ resp.body.query.limit = <<"1", "0", "1">>
    /\ resp.body.query.page = <<"-", "1">>
    /\ resp.body.storeLimit = 10
    /\ resp.body.storePage = 1
    /\ resp.body.listing.totalCount > 0

\* C16: the work queue never holds more identifiers than its capacity, however
\* many records the scans find and however slowly the workers receive.
C16_QueueWithinCapacity == Len(taskChannel) <= QueueCap

\* C16 witness: the queue is full, no worker is receiving from it, and the
\* scan still has a record to push.
C16_Witness ==
    /\ Len(taskChannel) = QueueCap
    /\ spc = "push"
    /\ stasks # <<>>
    /\ \A w \in Workers : wpc[w] # "recv"

\* Start has returned and every worker goroutine has returned.
AllStopped == spc = "done" /\ \A w \in Workers : wpc[w] = "exit"

\* C17: before the cancellation signal Start does not return and no worker
\* exits; once it has fired, and store calls in flight return, Start and every
\* worker loop eventually exit.
C17_CancelStopsAll ==
    /\ [](~ctxDone => (spc # "done" /\ \A w \in Workers : wpc[w] # "exit"))
    /\ (ctxDone ~> AllStopped)

\* C17 witness: the signal has fired, Start and every worker have returned,
\* and records had been created and queued before.
C17_Witness ==
    /\ ctxDone
    /\ AllStopped
    /\ collection # <<>>
    /\ taskChannel # <<>>

\* C18: when the store call of FindByID or of UpdateStatus fails while a worker
\* handles a candidate, the store is left as it was, the identifier is not put
\* back on the queue, the worker drops the candidate (no further store call for
\* it) and is back at its receive; a worker's loop ends on cancellation only,
\* never on a failure.
C18_FailureDropsCandidate ==
    /\ [][\A w \in Workers :
            /\ WorkerRecvFail(w) =>
                  /\ collection' = collection /\ nextID' = nextID
                  /\ taskChannel' = Tail(taskChannel)
                  /\ wpc'[w] = "recv" /\ wid'[w] = 0 /\ wtask'[w] = NoTask
            /\ WorkerCompleteFail(w) =>
                  /\ collection' = collection /\ nextID' = nextID
                  /\ taskChannel' = taskChannel
                  /\ wpc'[w] = "recv" /\ wid'[w] = 0 /\ wtask'[w] = NoTask]_vars
    /\ [](\A w \in Workers : wpc[w] = "exit" => ctxDone)

\* C18 witness: a worker is inside autoCompleteTask with an open record that
\* is old enough, the context is cancelled so that its UpdateStatus call fails,
\* and the queue holds a further identifier.
C18_Witness ==
    \E w \in Workers :
        /\ wpc[w] = "check"
        /\ ctxDone
        /\ OldEnough(wtask[w])
        /\ wid[w] \in DOMAIN collection
        /\ StillOpen(collection[wid[w]])
        /\ taskChannel # <<>>

\* The identifiers of ids, in this order, are those of records created in
\* ascending order of time.
AscendingIDs(ids) ==
    \A i, j \in 1..Len(ids) :
        i < j => collection[ids[i]].created_at <= collection[ids[j]].created_at

\* C19: a scan takes its records in ascending order of creation time and
\* pushes them in that order at the tail of the queue (or skips one when the
\* queue is full); the queue changes in no other way than by such a push or by
\* a worker taking its head, and the identifier a worker goes on to handle is
\* the head it took.  So of two records of one scan the older is never
\* received after the younger.
C19_ScanOrderFIFO ==
    /\ [][Scanned => AscendingIDs(stasks')]_vars
    /\ [][(spc = "push" /\ stasks' # stasks) =>
            /\ stasks' = Tail(stasks)
            /\ taskChannel' \in {taskChannel, Append(taskChannel, Head(stasks))}]_vars
    /\ [][\/ taskChannel' = taskChannel
          \/ Received
          \/ /\ spc = "push"
             /\ taskChannel' = Append(taskChannel, Head(stasks))
             /\ stasks' = Tail(stasks)]_vars
    /\ [][\A w \in Workers : (wpc[w] = "recv" /\ wpc'[w] = "check") =>
            /\ Received
            /\ wid'[w] = Head(taskChannel)]_vars

\* C19 witness: in the middle of a scan of two records the older one is in the
\* queue and the younger one is still to be pushed.
C19_Witness ==
    /\ spc = "push"
    /\ Len(stasks) = 1
    /\ Len(taskChannel) = 1
    /\ {stasks[1], taskChannel[1]} \subseteq DOMAIN collection
    /\ collection[taskChannel[1]].created_at < collection[stasks[1]].created_at

\* C20: the only status change any step applies to a stored record is a change
\* to completed, so a completed record is never pending or in_progress again;
\* and a record that appears in the store is a new one under a fresh
\* identifier, so no delete and create brings a completed record back as open.
C20_StatusOnlyForward ==
    [][/\ \A id \in DOMAIN collection \cap DOMAIN collection' :
             collection'[id].status # collection[id].status =>
                collection'[id].status = TaskStatusCompleted
       /\ \A id \in DOMAIN collection' \ DOMAIN collection :
             id = nextID /\ nextID' > nextID]_vars

\* C20 witness: a record the worker completed (updated after its creation) is
\* completed in the store while its identifier is in the queue once more.
C20_Witness ==
    \E id \in DOMAIN collection :
        /\ collection[id].status = TaskStatusCompleted
        /\ collection[id].updated_at > collection[id].created_at
        /\ \E i \in 1..Len(taskChannel) : taskChannel[i] = id

\* C21: every stored record has the status pending, in_progress or completed;
\* a create request with any other non-empty status stores nothing, one with
\* an empty status stores a pending record, and one with a valid status stores
\* a record of that status.
C21_StatusClosedEnum ==
    /\ [](\A id \in DOMAIN collection :
             collection[id].status \in
                {TaskStatusPending, TaskStatusInProgress, TaskStatusCompleted})
    /\ [][\A title \in Titles, status \in StatusInputs :
             CreateTask("alice", title, status) =>
                /\ status \notin {"", TaskStatusPending, TaskStatusInProgress,
                                  TaskStatusCompleted} =>
                      collection' = collection /\ nextID' = nextID
                /\ (status = "" /\ title # "") =>
                      /\ nextID \in DOMAIN collection'
                      /\ collection'[nextID].status = TaskStatusPending
                /\ (status \in {TaskStatusPending, TaskStatusInProgress,
                                TaskStatusCompleted} /\ title # "") =>
                      /\ nextID \in DOMAIN collection'
                      /\ collection'[nextID].status = status]_vars

\* C21 witness: the store holds a record created as pending and one created as
\* in_progress, neither updated since.
C21_Witness ==
    \E i, j \in DOMAIN collection :
        /\ collection[i].status = TaskStatusPending
        /\ collection[j].status = TaskStatusInProgress
        /\ collection[i].updated_at = collection[i].created_at
        /\ collection[j].updated_at = collection[j].created_at

\* C22: updated_at >= created_at for every stored record, always; the two are
\* equal when the record is created, and a step that changes a stored record
\* moves its updated_at forward or leaves it.
C22_UpdatedNotBeforeCreated ==
    /\ [](\A id \in DOMAIN collection :
             collection[id].updated_at >= collection[id].created_at)
    /\ [][/\ \A id \in DOMAIN collection' \ DOMAIN collection :
                collection'[id].updated_at = collection'[id].created_at
          /\ \A id \in DOMAIN collection \cap DOMAIN collection' :
                collection'[id].updated_at >= collection[id].updated_at]_vars

\* C22 witness: one record was updated after its creation and another is as it
\* was created.
C22_Witness ==
    \E i, j \in DOMAIN collection :
        /\ collection[i].updated_at > collection[i].created_at
        /\ collection[j].updated_at = collection[j].created_at
        /\ collection[j].created_at > 0

\* C23: the update of autoCompleteTask changes nothing but the status and the
\* updated_at of the record it addresses: that record keeps its identifier,
\* owner, title, description and created_at, every other record is as it was,
\* and no record is added or removed; and no step at all changes one of these
\* five fields of a stored record.
C23_UpdateTouchesStatusOnly ==
    /\ [][\A w \in Workers : Completes(w) =>
            /\ DOMAIN collection' = DOMAIN collection
            /\ nextID' = nextID
            /\ \A id \in DOMAIN collection :
                  IF id = wid[w]
                  THEN collection'[id] =
                          [collection[id] EXCEPT !.status = collection'[id].status,
                                                 !.updated_at = collection'[id].updated_at]
                  ELSE collection'[id] = collection[id]]_vars
    /\ [][\A id \in DOMAIN collection \cap DOMAIN collection' :
            /\ collection'[id].id = collection[id].id
            /\ collection'[id].user_id = collection[id].user_id
            /\ collection'[id].title = collection[id].title
            /\ collection'[id].description = collection[id].description
            /\ collection'[id].created_at = collection[id].created_at]_vars

\* C23 witness: a record completed by the worker (updated after its creation)
\* still has its identifier, owner and title, next to another record that is
\* as it was created.
C23_Witness ==
    \E i, j \in DOMAIN collection :
        /\ i # j
        /\ collection[i].status = TaskStatusCompleted
        /\ collection[i].updated_at > collection[i].created_at
        /\ collection[i].id = i
        /\ collection[i].user_id = "alice"
        /\ collection[i].title = "Write spec"
        /\ collection[j].status = TaskStatusInProgress
        /\ collection[j].updated_at = collection[j].created_at

\* A create request of the owner with this title and status stored a record.
Created(title, status) == CreateTask("alice", title, status) /\ nextID' # nextID

\* C24: create followed at once by findByID of the assigned identifier returns
\* a record equal to the created one in owner, title, description, status and
\* created_at, and the assigned identifier is that of no other stored record.
C24_CreateFindRoundTrip ==
    [][\A title \in Titles, status \in StatusInputs, id \in {nextID} :
          Created(title, status) =>
          LET created == NewTask("alice", title, "",
                                 IF status = "" THEN TaskStatusPending ELSE status)
              found == (FindByID(id))'
          IN  /\ found.err = ""
              /\ found.task.id = id
              /\ id \notin DOMAIN collection
              /\ found.task.user_id = created.user_id
              /\ found.task.title = created.title
              /\ found.task.description = created.description
              /\ found.task.status = created.status
              /\ found.task.created_at = created.created_at]_vars

\* The identifiers the store has assigned and holds no more: those of the
\* deleted records.
Deleted == {id \in 1..(nextID - 1) : id \notin DOMAIN collection}

\* Filters that list every page-one record of a status, or of all.
WholeListings ==
    [Status : {<<>>, <<TaskStatusPending>>, <<TaskStatusInProgress>>,
               <<TaskStatusCompleted>>},
     Page : {1}, Limit : {MaxTasks}]

\* C25: a successful delete removes the record at once and for good: from then
\* on FindByID, UpdateStatus and Delete of the identifier fail with not-found,
\* no listing and no FindPendingTasks result holds or counts the record, and
\* the identifier is never stored again; a delete of an absent identifier
\* fails with not-found and leaves the store as it was.
C25_DeleteIsFinal ==
    /\ [](\A id \in Deleted :
            /\ FindByID(id).err = "task not found"
            /\ UpdateStatusErr(id) = "task not found"
            /\ DeleteErr(id) = "task not found"
            /\ \A t \in 0..(MaxTime + Millisecond) :
                  \A found \in FindPendingTasks(t) : id \notin FoundIDs(found)
            /\ \A filter \in WholeListings :
                  \A r \in FindAll(filter) \cup FindByUserID("alice", filter) :
                     /\ id \notin FoundIDs(r.tasks)
                     /\ r.totalCount = Len(r.tasks))
    /\ [][\A id \in TaskIDs : DeleteTask("alice", id) =>
            /\ id \notin DOMAIN collection'
            /\ nextID' = nextID
            /\ id \notin DOMAIN collection => collection' = collection
            /\ \A other \in DOMAIN collection \ {id} :
                  other \in DOMAIN collection' /\ collection'[other] = collection[other]]_vars
    /\ [][\A id \in Deleted : id \notin DOMAIN collection']_vars

\* C25 witness: a record was deleted while its identifier was in the queue, so
\* that a worker's FindByID of it is still to come, and another record is
\* stored.
C25_Witness ==
    /\ collection # <<>>
    /\ \E id \in Deleted : \E i \in 1..Len(taskChannel) : taskChannel[i] = id

\* The records of the store a caller's listing ranges over: all for an admin,
\* the caller's own otherwise.
Visible(u) == {d \in Documents : Role(u) = UserRoleAdmin \/ d.user_id = u}

\* C26: a listing request with a status filter that is present and is not one
\* of pending, in_progress, completed is answered 400 as invalid input without
\* a store call (a store that would fail is not noticed); a listing with a
\* valid filter returns records of that status only and its totalCount is the
\* number of the caller's visible records of that status.
C26_StatusFilterValidated ==
    [][(resp' # resp /\ resp'.op = "list") =>
          LET st == resp'.body.query.status
              valid == {TaskStatusPending, TaskStatusInProgress, TaskStatusCompleted}
          IN  /\ (st # "" /\ st \notin valid) =>
                    /\ resp'.code = 400
                    /\ resp'.invalid
                    /\ resp'.storeErr = ""
                    /\ collection' = collection
              /\ (st = "" \/ st \in valid) => resp'.code \in {200, 500}
              /\ (st \in valid /\ resp'.code = 200) =>
                    LET r == resp'.body.listing
                    IN  /\ \A i \in 1..Len(r.tasks) : r.tasks[i].status = st
                        /\ r.totalCount =
                              Cardinality({d \in Visible(resp'.user) : d.status = st})]_vars

\* C26 witness: a listing with status=archived was answered 400 over a store
\* that holds records.
C26_Witness ==
    /\ resp.op = "list"
    /\ resp.code = 400
    /\ resp.body.query.status = "archived"
    /\ collection # <<>>

\* C27: a create request with an empty title is answered with the validation
\* error "title is required" and the store is as it was; a valid request whose
\* store call succeeds adds exactly one record, under a fresh identifier and
\* owned by the caller, and changes no other record.
C27_CreateValidatesTitle ==
    [][\A u \in APIUsers, body \in Bodies, fault \in BOOLEAN :
          (resp' # resp /\ resp'.op = "create" /\ HandleCreateTask(u, body, fault)) =>
             /\ (body.valid /\ body.title = "") =>
                   /\ resp'.code = 400
                   /\ resp'.message = <<"title is required">>
                   /\ collection' = collection /\ nextID' = nextID
             /\ (body.valid /\ body.title # "" /\ ~fault
                    /\ body.status \in {"", TaskStatusPending, TaskStatusInProgress,
                                        TaskStatusCompleted}) =>
                   /\ resp'.code = 201
                   /\ nextID \notin DOMAIN collection
                   /\ DOMAIN collection' = DOMAIN collection \cup {nextID}
                   /\ collection'[nextID].user_id = u
                   /\ collection'[nextID].title = body.title
                   /\ resp'.body.user_id = u /\ resp'.body.id = nextID
                   /\ \A id \in DOMAIN collection : collection'[id] = collection[id]]_vars

\* C27 witness: bob's create with an empty title was answered "title is
\* required" over a store that holds records of alice only.
C27_Witness ==
    /\ resp.op = "create"
    /\ resp.user = "bob"
    /\ resp.code = 400
    /\ resp.message = <<"title is required">>
    /\ collection # <<>>
    /\ \A id \in DOMAIN collection : collection[id].user_id = "alice"

\* C28: UpdateStatus(id, completed) is applied at most once per record: when a
\* worker leaves autoCompleteTask for a record that is already completed in
\* the store, the record is as it was (its updated_at is not advanced again),
\* also when the identifier was queued by two scans.
C28_CompletedAtMostOnce ==
    [][\A w \in Workers :
          (/\ Completes(w)
           /\ wid[w] \in DOMAIN collection
           /\ collection[wid[w]].status = TaskStatusCompleted) =>
             /\ wid[w] \in DOMAIN collection'
             /\ collection'[wid[w]] = collection[wid[w]]]_vars

\* C29: nothing is pushed onto the queue once it is closed, and it is closed
\* at most once: the close happens on cancellation, from the select of Start
\* and never in the middle of a scan; after it Start has returned, no scan is
\* in progress, and the queue only loses identifiers.
C29_NoPushAfterClose ==
    /\ [](chClosed => (ctxDone /\ spc = "done" /\ stasks = <<>>))
    /\ [][(~chClosed /\ chClosed') => (spc = "select" /\ ctxDone /\ spc' = "done")]_vars
    /\ [][chClosed =>
            /\ chClosed'
            /\ ~ScanStop /\ ~ScanPush /\ ~ScanTick
            /\ taskChannel' = taskChannel \/ Received]_vars

\* C29 witness: the queue was closed after a scan whose pushes are still in
\* it, at a time when the cancellation had arrived.
C29_Witness ==
    /\ chClosed
    /\ spc = "done"
    /\ Len(taskChannel) = QueueCap
    /\ \E w \in Workers : wpc[w] = "check"

\* A ListTasks call returned (with a listing or a panic; its store calls did
\* not fail) for a filter whose limit or page is not positive.
ListedNonPositive ==
    /\ listResp' # listResp
    /\ listResp'.err # "failed to list tasks"
    /\ (listResp'.filter.Limit <= 0 \/ listResp'.filter.Page <= 0)

\* C30: ListTasks called with a filter whose limit is <= 0 or whose page is
\* <= 0 returns a listing without failing; the limit and page it reports are
\* those the store applied (the defaults 10 and 1 in place of the non-positive
\* values) and totalPages is the ceiling of totalCount over the applied limit.
C30_NonPositiveFilterListed ==
    [][ListedNonPositive =>
          LET r == listResp'
              applied == LimitOf(r.filter)
          IN  /\ r.err = ""
              /\ r.limit = applied
              /\ r.page = PageOf(r.filter)
              /\ r.totalPages * applied >= r.totalCount
              /\ (r.totalPages - 1) * applied < r.totalCount \/ r.totalCount = 0]_vars

\* C33: a scan never changes the store.  Every step of checkAndQueueTasks,
\* the query as well as each push, leaves the collection and the identifier
\* counter as they were and leaves the queue alone or appends one identifier at
\* its tail; and a scan whose query fails appends nothing and has nothing to
\* push.
C33_ScanLeavesStore ==
    /\ [][(ScanTick \/ ScanTickFail \/ ScanPush) =>
            /\ collection' = collection /\ nextID' = nextID
            /\ \/ taskChannel' = taskChannel
               \/ \E id \in TaskIDs : taskChannel' = Append(taskChannel, id)]_vars
    /\ [][(spc' # spc \/ stasks' # stasks) =>
            (collection' = collection /\ nextID' = nextID)]_vars
    /\ [][ScanTickFail => (taskChannel' = taskChannel /\ stasks' = stasks /\ spc' = spc)]_vars
    /\ [][ScanTick => taskChannel' = taskChannel]_vars

\* C33 witness: a scan has found two open records and pushed the first; both
\* are in the store as they were created.
C33_Witness ==
    /\ spc = "push"
    /\ Len(stasks) = 1
    /\ taskChannel # <<>>
    /\ stasks[1] # taskChannel[Len(taskChannel)]
    /\ \A id \in {stasks[1], taskChannel[Len(taskChannel)]} :
          /\ id \in DOMAIN collection
          /\ StillOpen(collection[id])
          /\ collection[id].updated_at = collection[id].created_at

\* Goroutine g is in a repository operation: waiting for the lock or inside.
InOperation(g) == waiting[g] # "" \/ calls[g] # ""

\* C31: every repository operation eventually returns, under every
\* interleaving of requests, the scanner and a worker: none waits for the lock
\* for ever and none deadlocks, given that store calls return by their
\* deadline; and the lock is held by exactly the goroutines that are inside an
\* operation, so that one that has returned, with a result or an error, has
\* released it.
C31_OperationsReturn ==
    /\ [](mu.writers \cup mu.readers = {g \in Goroutines : calls[g] # ""})
    /\ [](\A g \in Goroutines : ~(waiting[g] # "" /\ calls[g] # ""))
    /\ \A g \in Goroutines : InOperation(g) ~> ~InOperation(g)

\* C31 witness: the worker waits in the Lock of UpdateStatus while a request
\* holds the lock as a reader, and the scanner waits in RLock behind the
\* worker.
C31_Witness ==
    /\ waiting[<<"worker", 1>>] = "UpdateStatus"
    /\ mu.readers # {}
    /\ \E g \in RequestGoroutines : calls[g] = "FindByUserID"
    /\ waiting[<<"scanner", 1>>] = "FindPendingTasks"

\* C32: when two DeleteTask requests for the same existing record, both from
\* callers allowed to delete it, run concurrently, exactly one of them succeeds
\* and the other fails with not-found; the record is removed once and no other
\* record is affected.  Stated for any number of requests on one record: of
\* the allowed requests on a record that one of them found, never two have
\* succeeded, and once all are answered exactly one has succeeded and every
\* other one has "task not found"; the step of the successful request is the
\* one that removes the record, and no step touches another record.
Started(id) == {d \in Deleters : dels[d].pc # "idle" /\ dels[d].id = id}

Succeeded(id) == {d \in Started(id) : dels[d].pc = "done" /\ dels[d].err = ""}

Record(id) == {dels[d].task : d \in {e \in Started(id) : dels[e].task # NoTask}}

AllAllowed(id) == \A d \in Started(id), t \in Record(id) : Authorized(dels[d].user, t)

C32_ConcurrentDeletes ==
    /\ [](\A id \in TaskIDs : Cardinality(Succeeded(id)) <= 1)
    /\ [](\A id \in TaskIDs :
            (/\ Record(id) # {}
             /\ AllAllowed(id)
             /\ \A d \in Started(id) : dels[d].pc = "done")
            => /\ Cardinality(Succeeded(id)) = 1
               /\ \A d \in Started(id) \ Succeeded(id) : dels[d].err = "task not found"
               /\ id \notin DOMAIN collection)
    /\ [][\A d \in Deleters : DeleteTaskDelete(d) =>
            /\ dels'[d].err = "" <=> (dels[d].id \in DOMAIN collection
                                        /\ dels[d].id \notin DOMAIN collection')
            /\ \A i \in DOMAIN collection \ {dels[d].id} :
                  i \in DOMAIN collection' /\ collection'[i] = collection[i]
            /\ DOMAIN collection' \subseteq DOMAIN collection]_vars
    /\ [][DeleteFinds => collection' = collection]_vars

\* Alice and the admin both found alice's task 1 before either deleted it:
\* one succeeded, the other has "task not found", and task 2 is still there.
C32_Witness ==
    /\ \A d \in Deleters : dels[d].pc = "done" /\ dels[d].id = 1 /\ dels[d].task # NoTask
    /\ {dels[d].user : d \in Deleters} = {"alice", "root"}
    /\ {dels[d].err : d \in Deleters} = {"", "task not found"}
    /\ DOMAIN collection = {2}


====
